---- MODULE Spec2Model ----
(***************************************************************************)
(* A model of sphinx_api_relink: the version pin lookup of helpers.py      *)
(* (pin, pin_minor, set_intersphinx_version_remapping) and the blob-URL    *)
(* resolution of linkcode.py (get_blob_url, _url_exists, the Git queries), *)
(* and the "config-inited" handlers of __init__.py (_generate_apidoc,      *)
(* _replace_type_to_xref) with the type_to_xref they install.              *)
(*                                                                         *)
(* Python strings that the code takes apart (package names, manifest       *)
(* lines, versions, remapping patterns) are sequences of one-character     *)
(* strings.  An optional value is a sequence of length at most one.        *)
(***************************************************************************)
EXTENDS Naturals, Sequences, FiniteSets, TLC

None == <<>>
Some(x) == <<x>>

\* Outcome of a call: a returned value or a raised exception.
Ret(v) == <<"return", v>>
Raise(e) == <<"raise", e>>

(***************************************************************************)
(* Bounds of the model.                                                    *)
(***************************************************************************)
\* Longest constraints manifest, in lines.
MaxLines == 2

(***************************************************************************)
(* String helpers: str.lower, str.strip, str.split, str.startswith.        *)
(***************************************************************************)
LowerChar(c) ==
    CASE c = "N" -> "n"
      [] c = "P" -> "p"
      [] c = "X" -> "x"
      [] c = "R" -> "r"
      [] c = "C" -> "c"
      [] OTHER -> c

Lower(s) == [i \in 1..Len(s) |-> LowerChar(s[i])]

IsSpace(c) == c \in {" ", "\n"}

RECURSIVE LStrip(_)
LStrip(s) == IF s # <<>> /\ IsSpace(Head(s)) THEN LStrip(Tail(s)) ELSE s

RECURSIVE RStrip(_)
RStrip(s) ==
    IF s # <<>> /\ IsSpace(s[Len(s)]) THEN RStrip(SubSeq(s, 1, Len(s) - 1)) ELSE s

Strip(s) == RStrip(LStrip(s))

StartsWith(s, prefix) ==
    /\ Len(prefix) <= Len(s)
    /\ SubSeq(s, 1, Len(prefix)) = prefix

\* line.split("#")[0]
RECURSIVE BeforeHash(_)
BeforeHash(s) ==
    IF s = <<>> \/ Head(s) = "#" THEN <<>> ELSE <<Head(s)>> \o BeforeHash(Tail(s))

\* line.split("=="): left to right, non-overlapping separators.
RECURSIVE SplitEqFrom(_, _)
SplitEqFrom(s, cur) ==
    IF s = <<>> THEN <<cur>>
    ELSE IF Len(s) >= 2 /\ s[1] = "=" /\ s[2] = "="
         THEN <<cur>> \o SplitEqFrom(SubSeq(s, 3, Len(s)), <<>>)
         ELSE SplitEqFrom(Tail(s), Append(cur, Head(s)))

SplitEq(s) == SplitEqFrom(s, <<>>)

IsDigit(c) == c \in {"0", "1", "2", "3", "4", "5", "6", "7", "8", "9"}

(***************************************************************************)
(* re.match for the pattern language of the remapping tables: literal      *)
(* characters, "." (any character) and the postfix quantifiers "*", "+".   *)
(* re.match anchors at the start of the string only.                       *)
(***************************************************************************)
CharMatches(p, c) == p = "." \/ p = c

RECURSIVE ReMatch(_, _)
ReMatch(pattern, s) ==
    IF pattern = <<>> THEN TRUE
    ELSE IF Len(pattern) >= 2 /\ pattern[2] \in {"*", "+"}
    THEN LET least == IF pattern[2] = "+" THEN 1 ELSE 0
             rest == SubSeq(pattern, 3, Len(pattern))
         IN  \E k \in least..Len(s) :
                /\ \A i \in 1..k : CharMatches(pattern[1], s[i])
                /\ ReMatch(rest, SubSeq(s, k + 1, Len(s)))
    ELSE /\ s # <<>>
         /\ CharMatches(Head(pattern), Head(s))
         /\ ReMatch(Tail(pattern), Tail(s))


(***************************************************************************)
(* The strings of the model.                                               *)
(***************************************************************************)
\* Package names, as the caller of pin / pin_minor writes them.
NameNp == <<"n", "p">>
NameNpMixed == <<"N", "p">>
NameNpx == <<"n", "p", "x">>
NameGh == <<"g", "h">>
QueryNames == {NameNp, NameNpMixed, NameNpx, NameGh}

\* Version strings.
Stable == <<"s", "t", "a", "b", "l", "e">>
V12 == <<"1", ".", "2">>
V120 == <<"1", ".", "2", "0">>
V123 == <<"1", ".", "2", ".", "3">>
V34 == <<"3", ".", "4">>
V1pc == <<"1", "+", "c">>
V99 == <<"9", ".", "9">>
V88 == <<"8", ".", "8">>
V7 == <<"7">>
Vdev == <<"d", "e", "v">>

\* Lines of a constraints manifest (.constraints/py3.x.txt).
LineNp == <<"n", "p", "=", "=", "1", ".", "2", ".", "3">>
LineNpx == <<"n", "p", "x", "=", "=", "3", ".", "4">>
LineMixed == <<"N", "p", " ", "=", "=", " ", "1", ".", "2", " ", "#", "c">>
LineGe == <<"n", "p", ">", "=", "1", ".", "2">>
LinePlus == <<"n", "p", "=", "=", "1", "+", "c">>
Lines == {LineNp, LineNpx, LineMixed, LineGe, LinePlus}

SeqsUpTo(S, n) == UNION {[1..k -> S] : k \in 0..n}

\* The manifest: absent (no file), or the lines of the file.
Manifests == {None} \cup {Some(ls) : ls \in SeqsUpTo(Lines, MaxLines)}

\* What importlib.metadata knows: package name -> optional version.
NothingInstalled == [n \in {NameNp, NameNpx, NameGh} |-> None]
SomeInstalled == [NothingInstalled EXCEPT ![NameNp] = Some(V120), ![NameGh] = Some(Vdev)]
InstalledConfigs == {NothingInstalled, SomeInstalled}


(***************************************************************************)
(* Python values handed to set_intersphinx_version_remapping: a type tag   *)
(* and a payload.  A dict is the sequence of its items in insertion order. *)
(***************************************************************************)
PyStr(s) == <<"str", s>>
PyInt == <<"int", <<>>>>
PyList == <<"list", <<>>>>
PyDict(items) == <<"dict", items>>
TypeOf(v) == v[1]
Payload(v) == v[2]

Entry(src, tgt) == <<PyStr(src), PyStr(tgt)>>
Package(name, entries) == <<PyStr(name), PyDict(entries)>>

\* Patterns of the remapping tables.
PatAny1 == <<"1", ".", "*">>

TableNp12 == PyDict(<<Package(NameNp, <<Entry(V12, V99)>>)>>)
TableNp120 == PyDict(<<Package(NameNp, <<Entry(V120, V88)>>)>>)
TableNpOrder == PyDict(<<Package(NameNp, <<Entry(PatAny1, V7), Entry(V123, V88)>>)>>)
TableNpPlus == PyDict(<<Package(NameNp, <<Entry(V1pc, V34)>>)>>)
TableGh == PyDict(<<Package(NameGh, <<Entry(Stable, V99)>>),
                    Package(NameNpx, <<Entry(V34, Vdev)>>)>>)
TableNoDict == PyList
TableIntKey == PyDict(<<Package(NameNp, <<Entry(V12, V7)>>),
                        <<PyInt, PyDict(<<>>)>>>>)
TableStrValue == PyDict(<<<<PyStr(NameNp), PyStr(V12)>>>>)
TableIntTarget == PyDict(<<Package(NameNpx, <<Entry(V34, V7)>>),
                           Package(NameNp, <<Entry(V12, V7), <<PyStr(V120), PyInt>>>>)>>)
TableIntSource == PyDict(<<Package(NameNp, <<<<PyInt, PyStr(V7)>>>>)>>)

RemapTables ==
    {TableNp12, TableNp120, TableNpOrder, TableNpPlus, TableGh,
     TableNoDict, TableIntKey, TableStrValue, TableIntTarget, TableIntSource}

(***************************************************************************)
(* State.                                                                  *)
(* The surroundings of one documentation build (the git checkout, the      *)
(* hosting service's responses, the constraints file and the installed     *)
(* packages) are chosen in the initial state and stay as they are for the   *)
(* whole behaviour; only the module's own caches and tables change.         *)
(***************************************************************************)
VARIABLES
    constraints,        \* the constraints manifest: None, or Some(lines)
    installed,          \* importlib.metadata: package -> optional version
    __VERSION_REMAPPING,  \* helpers.__VERSION_REMAPPING: package -> <<source, target>> entries in order
    git,                \* the checkout the Git queries see
    net,                \* the hosting service: URL -> response to a HEAD request
    shaCache,           \* lru_cache of _get_commit_sha
    urlCache,           \* cache of _url_exists: URL -> answer
    blobCache,          \* cache of get_blob_url: call key -> URL
    printCache,         \* cache of print_once: the <<message, color>> keys seen
    stdout,             \* what print_once printed, in order
    chainRuns,          \* history: call key -> how often its probing chain ran (saturating)
    srcdir,             \* the files under app.srcdir: package directory -> optional set of files
    conf,               \* the options as conf.py sets them
    config,             \* app.config: the option values the handlers see (and change in place)
    apidoc_dir,         \* the packages whose pages are in the API directory
    type_to_xref,       \* None: Sphinx's own; Some([ref_targets, ref_types]): the patched one
    phase,              \* how far the handlers of "config-inited" got
    res                 \* the last call: [op, arg, out, log]

pinVars == <<constraints, installed, __VERSION_REMAPPING>>
linkVars == <<git, net, shaCache, urlCache, blobCache, printCache, stdout, chainRuns>>
docVars == <<srcdir, conf, config, apidoc_dir, type_to_xref, phase>>
vars == <<pinVars, linkVars, docVars, res>>

Call(op, arg, out, log) == [op |-> op, arg |-> arg, out |-> out, log |-> log]

(***************************************************************************)
(* helpers.py: the version pin lookup.                                     *)
(***************************************************************************)
\* importlib.metadata.version(name): None stands for PackageNotFoundError.
version(package_name) ==
    IF package_name \in DOMAIN installed THEN installed[package_name] ELSE None

RECURSIVE ScanConstraints(_, _)
ScanConstraints(lines, package_name) ==
    IF lines = <<>> THEN None
    ELSE LET line == Lower(Strip(BeforeHash(Head(lines))))
             line_segments == SplitEq(line)
         IN  IF ~StartsWith(line, package_name) THEN ScanConstraints(Tail(lines), package_name)
             ELSE IF line = <<>> THEN ScanConstraints(Tail(lines), package_name)
             ELSE IF Len(line_segments) # 2 THEN ScanConstraints(Tail(lines), package_name)
             ELSE Some(Strip(line_segments[2]))

_get_version_from_constraints(package_name) ==
    IF constraints = None THEN None
    ELSE ScanConstraints(constraints[1], Lower(package_name))

\* The first entry, in table order, whose pattern matches; 0 if none does.
RECURSIVE FirstMatch(_, _, _)
FirstMatch(remapping, v, i) ==
    IF i > Len(remapping) THEN 0
    ELSE IF ReMatch(remapping[i][1], v) THEN i
    ELSE FirstMatch(remapping, v, i + 1)

\* remapping.get(version, version)
DictGet(remapping, key, default) ==
    IF \E i \in 1..Len(remapping) : remapping[i][1] = key
    THEN remapping[CHOOSE i \in 1..Len(remapping) : remapping[i][1] = key][2]
    ELSE default

\* A faulty variant of _remap_version: exact lookup only.
_remap_version_exact(package, v) ==
    LET remapping == IF package \in DOMAIN __VERSION_REMAPPING
                     THEN __VERSION_REMAPPING[package] ELSE <<>>
    IN  DictGet(remapping, v, v)

_remap_version(package, v) ==
    LET remapping == IF package \in DOMAIN __VERSION_REMAPPING
                     THEN __VERSION_REMAPPING[package] ELSE <<>>
        i == FirstMatch(remapping, v, 1)
    IN  IF i # 0 THEN remapping[i][2] ELSE DictGet(remapping, v, v)

\* The version pin looks up before remapping: the manifest's, else the
\* installed one, else None (PackageNotFoundError).
lookup_version(package_name) ==
    LET from_constraints == _get_version_from_constraints(package_name)
    IN  IF from_constraints # None THEN from_constraints ELSE version(package_name)

pin(package_name) ==
    LET name == Lower(package_name)
    IN  IF lookup_version(name) = None THEN Stable
        ELSE _remap_version(name, lookup_version(name)[1])

RECURSIVE DigitRun(_)
DigitRun(s) == IF s # <<>> /\ IsDigit(Head(s)) THEN 1 + DigitRun(Tail(s)) ELSE 0

\* A faulty variant of pin_minor: "stable" is not returned early.
pin_minor_no_stable(package_name) ==
    LET installed_version == pin(package_name)
        major == DigitRun(installed_version)
        rest == SubSeq(installed_version, major + 2, Len(installed_version))
        minor == DigitRun(rest)
    IN  IF /\ major >= 1
           /\ Len(installed_version) > major
           /\ installed_version[major + 1] = "."
           /\ minor >= 1
        THEN Ret(SubSeq(installed_version, 1, major + 1 + minor))
        ELSE Raise("ValueError")

\* re.match(r"^([0-9]+\.[0-9]+).*$", installed_version), then matches[1].
pin_minor(package_name) ==
    LET installed_version == pin(package_name)
        major == DigitRun(installed_version)
        rest == SubSeq(installed_version, major + 2, Len(installed_version))
        minor == DigitRun(rest)
    IN  IF installed_version = Stable THEN Ret(installed_version)
        ELSE IF /\ major >= 1
                /\ Len(installed_version) > major
                /\ installed_version[major + 1] = "."
                /\ minor >= 1
             THEN Ret(SubSeq(installed_version, 1, major + 1 + minor))
             ELSE Raise("ValueError")

\* A faulty variant of WellTyped: the source and target versions inside a
\* package's dict are not checked.
WellTyped_shallow(version_remapping) ==
    /\ TypeOf(version_remapping) = "dict"
    /\ \A i \in 1..Len(Payload(version_remapping)) :
          /\ TypeOf(Payload(version_remapping)[i][1]) = "str"
          /\ TypeOf(Payload(version_remapping)[i][2]) = "dict"

\* The isinstance checks of set_intersphinx_version_remapping.
WellTyped(version_remapping) ==
    /\ TypeOf(version_remapping) = "dict"
    /\ \A i \in 1..Len(Payload(version_remapping)) :
          LET k == Payload(version_remapping)[i][1]
              v == Payload(version_remapping)[i][2]
          IN  /\ TypeOf(k) = "str"
              /\ TypeOf(v) = "dict"
              /\ \A j \in 1..Len(Payload(v)) :
                    /\ TypeOf(Payload(v)[j][1]) = "str"
                    /\ TypeOf(Payload(v)[j][2]) = "str"

\* The entries of one package of a well-typed table, untagged.
Untagged(entries) ==
    [j \in 1..Len(entries) |-> <<Payload(entries[j][1]), Payload(entries[j][2])>>]

Keys(version_remapping) ==
    {Payload(Payload(version_remapping)[i][1]) : i \in 1..Len(Payload(version_remapping))}

ValueOf(version_remapping, key) ==
    LET items == Payload(version_remapping)
        i == CHOOSE i \in 1..Len(items) : Payload(items[i][1]) = key
    IN  Untagged(Payload(items[i][2]))

\* __VERSION_REMAPPING.update(version_remapping)
DictUpdate(old, version_remapping) ==
    [k \in DOMAIN old \cup Keys(version_remapping) |->
        IF k \in Keys(version_remapping) THEN ValueOf(version_remapping, k) ELSE old[k]]

(***************************************************************************)
(* Actions of the pin lookup.                                              *)
(***************************************************************************)
Pin(package_name) ==
    /\ res' = Call("pin", package_name, Ret(pin(package_name)), <<>>)
    /\ UNCHANGED <<docVars, pinVars, linkVars>>

PinMinor(package_name) ==
    /\ res' = Call("pin_minor", package_name, pin_minor(package_name), <<>>)
    /\ UNCHANGED <<docVars, pinVars, linkVars>>

SetRemapping(version_remapping) ==
    /\ IF WellTyped(version_remapping)
       THEN /\ __VERSION_REMAPPING' = DictUpdate(__VERSION_REMAPPING, version_remapping)
            /\ res' = Call("set_intersphinx_version_remapping", version_remapping,
                           Ret(None), <<>>)
       ELSE /\ res' = Call("set_intersphinx_version_remapping", version_remapping,
                           Raise("TypeError"), <<>>)
            /\ UNCHANGED __VERSION_REMAPPING
    /\ UNCHANGED <<docVars, constraints, installed, linkVars>>


(***************************************************************************)
(* linkcode.py: the environment of the blob-URL resolution.                *)
(***************************************************************************)
\* Git refs.
Master == <<"m", "a", "s", "t", "e", "r">>
Main == <<"m", "a", "i", "n">>
TagV1 == <<"v", "1">>
BranchDev == <<"d", "e", "v">>
DetachedHead == <<"H", "E", "A", "D">>
HeadHash == <<"1", "a", "2", "b", "3", "c", "4", "d", "5">>
Newline == <<"\n">>

Repo == "ComPWA/sphinx-api-relink"

\* f"https://github.com/{github_repo}/blob/{rev}"
BlobUrl(github_repo, rev) == <<"https://github.com", github_repo, "blob", rev>>
\* A URL of the hosting service that is no blob URL (a redirect target).
OtherUrl == <<"https://github.com", Repo, "tree", Main>>

\* commit_hash[:7]
ShortShaLen == 7
ShortSha(commit_hash) ==
    SubSeq(commit_hash, 1, IF Len(commit_hash) < ShortShaLen THEN Len(commit_hash)
                           ELSE ShortShaLen)

CandidateRevs == {ShortSha(HeadHash), TagV1, BranchDev, Master, Main}
Urls == {BlobUrl(Repo, r) : r \in CandidateRevs} \cup {OtherUrl}

\* The answer of the hosting service to a HEAD request, or the
\* requests.RequestException the request ends with.
Response(status, location) == <<"response", status, location>>
RequestException == <<"exception", "RequestException">>
Ok == Response(200, None)
NotFound == Response(404, None)
Redirect(url) == Response(301, Some(url))

\* The checkout: is there a git executable, is the directory a repository,
\* and HEAD's hash, exact tag and branch (None: no tag, detached HEAD).
Checkout(tool, repo, tag, branch) ==
    [tool |-> tool, repo |-> repo, head |-> HeadHash, tag |-> tag, branch |-> branch]
NoGitTool == Checkout(FALSE, FALSE, None, None)
NoRepository == Checkout(TRUE, FALSE, None, None)
Checkouts ==
    {Checkout(TRUE, TRUE, t, b) : t \in {None, Some(TagV1)}, b \in {None, Some(BranchDev)}}

AllNotFound == [u \in Urls |-> NotFound]

\* Hosting services without redirects: every candidate exists, is missing, or
\* cannot be reached.
DirectNets ==
    {[u \in Urls |-> IF u = OtherUrl THEN NotFound ELSE f[u]] :
        f \in [Urls \ {OtherUrl} -> {Ok, NotFound, RequestException}]}

\* Hosting services with redirects between the commit URL, the "main" URL and
\* a URL that is no blob URL; every other candidate is missing.
ShaUrl == BlobUrl(Repo, ShortSha(HeadHash))
MainUrl == BlobUrl(Repo, Main)
RedirectNets ==
    {[AllNotFound EXCEPT ![ShaUrl] = a, ![OtherUrl] = b, ![MainUrl] = c] :
        a \in {Redirect(OtherUrl), Redirect(ShaUrl)},
        b \in {Ok, NotFound, RequestException,
               Redirect(ShaUrl), Redirect(OtherUrl), Redirect(MainUrl)},
        c \in {Ok, NotFound, RequestException, Redirect(OtherUrl)}}

\* The environments of one documentation build: <<checkout, hosting service>>.
Environments ==
    ({NoGitTool, NoRepository} \X {AllNotFound})
    \cup (Checkouts \X DirectNets)
    \cup ({Checkout(TRUE, TRUE, None, Some(BranchDev))} \X RedirectNets)


(***************************************************************************)
(* helpers.py: the Git queries.                                            *)
(***************************************************************************)
IsRaise(out) == out[1] = "raise"
IsRet(out) == out[1] = "return"

\* subprocess running ["git", ...]: the executable is missing, or it exits
\* with a status and a standard output.
Exit(code, out) == <<"exit", code, out>>
GitRun(args) ==
    IF ~git.tool THEN Raise("FileNotFoundError")
    ELSE IF ~git.repo THEN Exit(128, <<>>)
    ELSE CASE args = "rev-parse HEAD" -> Exit(0, git.head \o Newline)
           [] args = "describe --tags --exact-match" ->
                IF git.tag = None THEN Exit(128, <<>>) ELSE Exit(0, git.tag[1] \o Newline)
           [] args = "rev-parse --abbrev-ref HEAD" ->
                IF git.branch = None THEN Exit(0, DetachedHead \o Newline)
                ELSE Exit(0, git.branch[1] \o Newline)

\* subprocess.run(..., check=True) and subprocess.check_output(...)
CheckedRun(args) ==
    LET r == GitRun(args)
    IN  IF IsRaise(r) THEN r
        ELSE IF r[2] # 0 THEN Raise("CalledProcessError")
        ELSE Ret(r[3])

_get_branch ==
    LET result == CheckedRun("rev-parse --abbrev-ref HEAD")
    IN  IF IsRaise(result) THEN result
        ELSE LET branch_name == Strip(result[2])
             IN  IF branch_name = DetachedHead THEN Ret(None) ELSE Ret(Some(branch_name))

\* Under lru_cache(maxsize=1): cache is None or Some(sha).
_get_commit_sha(cache) ==
    IF cache # None THEN [out |-> Ret(cache[1]), cache |-> cache, ran |-> FALSE]
    ELSE LET result == CheckedRun("rev-parse HEAD")
         IN  IF IsRaise(result) THEN [out |-> result, cache |-> cache, ran |-> TRUE]
             ELSE LET sha == ShortSha(Strip(result[2]))
                  IN  [out |-> Ret(sha), cache |-> Some(sha), ran |-> TRUE]

_get_latest_tag ==
    LET result == CheckedRun("describe --tags --exact-match")
    IN  IF result = Raise("CalledProcessError") THEN Ret(None)
        ELSE IF IsRaise(result) THEN result
        ELSE Ret(Some(Strip(result[2])))

GitEvent(query, out) == <<"git", query, out>>

\* A faulty variant of get_git_revision: the branch is preferred whatever
\* prefer_branch says.
get_git_revision_always_branch(prefer_branch) ==
    LET tag == _get_latest_tag
        branch == _get_branch
        sha == _get_commit_sha(shaCache)
    IN  IF IsRaise(tag) THEN [out |-> tag, cache |-> shaCache, log |-> <<>>]
        ELSE IF tag[2] # None THEN [out |-> Ret(tag[2][1]), cache |-> shaCache, log |-> <<>>]
        ELSE IF IsRaise(branch) THEN [out |-> branch, cache |-> shaCache, log |-> <<>>]
        ELSE IF branch[2] # None
             THEN [out |-> Ret(branch[2][1]), cache |-> shaCache, log |-> <<>>]
        ELSE [out |-> sha.out, cache |-> sha.cache, log |-> <<>>]

\* get_git_revision(prefer_branch=...): [out, cache, log]
get_git_revision(prefer_branch) ==
    LET tag == _get_latest_tag
        branch == _get_branch
        sha == _get_commit_sha(shaCache)
        tagLog == <<GitEvent("latest_tag", tag)>>
        shaLog == IF sha.ran THEN <<GitEvent("commit_sha", sha.out)>> ELSE <<>>
    IN  IF IsRaise(tag) THEN [out |-> tag, cache |-> shaCache, log |-> tagLog]
        ELSE IF tag[2] # None THEN [out |-> Ret(tag[2][1]), cache |-> shaCache, log |-> tagLog]
        ELSE IF prefer_branch /\ IsRaise(branch)
             THEN [out |-> branch, cache |-> shaCache,
                   log |-> tagLog \o <<GitEvent("branch", branch)>>]
        ELSE IF prefer_branch /\ branch[2] # None
             THEN [out |-> Ret(branch[2][1]), cache |-> shaCache,
                   log |-> tagLog \o <<GitEvent("branch", branch)>>]
        ELSE [out |-> sha.out, cache |-> sha.cache,
              log |-> tagLog
                      \o (IF prefer_branch THEN <<GitEvent("branch", branch)>> ELSE <<>>)
                      \o shaLog]

(***************************************************************************)
(* linkcode.py: _url_exists, print_once, get_blob_url.                     *)
(***************************************************************************)
Put(f, k, v) == [x \in DOMAIN f \cup {k} |-> IF x = k THEN v ELSE f[x]]

\* response.status_code < 400
HttpErrorStatus == 400

\* A faulty variant of _url_exists: the redirect target is requested once and
\* its own redirect location is not followed.
_url_exists_one_hop(url, cache, stack) ==
    IF url \in DOMAIN cache THEN [out |-> Ret(cache[url]), cache |-> cache, heads |-> <<>>]
    ELSE LET response == net[url]
         IN  IF response = RequestException
             THEN [out |-> Ret(FALSE), cache |-> Put(cache, url, FALSE), heads |-> <<url>>]
             ELSE IF response[3] = None
             THEN [out |-> Ret(response[2] < HttpErrorStatus),
                   cache |-> Put(cache, url, response[2] < HttpErrorStatus),
                   heads |-> <<url>>]
             ELSE LET target == response[3][1]
                      second == net[target]
                      answer == second # RequestException /\ second[2] < HttpErrorStatus
                  IN  IF target \in DOMAIN cache
                      THEN [out |-> Ret(cache[target]),
                            cache |-> Put(cache, url, cache[target]), heads |-> <<url>>]
                      ELSE [out |-> Ret(answer),
                            cache |-> Put(Put(cache, target, answer), url, answer),
                            heads |-> <<url, target>>]

\* _url_exists(url) under functools.cache, with the URLs of the calls that are
\* still running in `stack`.  A redirect target whose call is still running
\* is requested again and again until Python's recursion limit ends the
\* calls with RecursionError, which no call catches; `heads` then lists the
\* first round of requests only.  [out, cache, heads]
RECURSIVE _url_exists(_, _, _)
_url_exists(url, cache, stack) ==
    IF url \in DOMAIN cache THEN [out |-> Ret(cache[url]), cache |-> cache, heads |-> <<>>]
    ELSE IF url \in stack
    THEN [out |-> Raise("RecursionError"), cache |-> cache, heads |-> <<>>]
    ELSE LET response == net[url]
         IN  IF response = RequestException
             THEN [out |-> Ret(FALSE), cache |-> Put(cache, url, FALSE), heads |-> <<url>>]
             ELSE IF response[3] = None
             THEN [out |-> Ret(response[2] < HttpErrorStatus),
                   cache |-> Put(cache, url, response[2] < HttpErrorStatus),
                   heads |-> <<url>>]
             ELSE LET inner == _url_exists(response[3][1], cache, stack \cup {url})
                  IN  IF IsRaise(inner.out)
                      THEN [out |-> inner.out, cache |-> inner.cache,
                            heads |-> <<url>> \o inner.heads]
                      ELSE [out |-> inner.out,
                            cache |-> Put(inner.cache, url, inner.out[2]),
                            heads |-> <<url>> \o inner.heads]

\* colorama.Fore
Red == "RED"
Magenta == "MAGENTA"

\* The messages of get_blob_url.
MsgNotExist(url) == <<"The URL seems not to exist", url>>
MsgFallingBack(url) == <<"--> falling back to", url>>
MsgDisable == <<"Disable this fallback behavior", None>>
MsgNoRev == <<"Could not determine a valid Git rev for linkcode URLs", None>>

\* print_once(message, color=...) under functools.cache: the key is the
\* message with the color argument as passed (None: not passed, printed red).
\* m is [urlCache, printCache, stdout, log].
print_once(m, message, color) ==
    IF <<message, color>> \in m.printCache THEN m
    ELSE [m EXCEPT !.printCache = @ \cup {<<message, color>>},
                   !.stdout = Append(@, <<message, IF color = None THEN Red ELSE color[1]>>)]

\* A faulty variant of Truthy: the early return for an explicit revision is never taken.
Truthy_never(rev) == FALSE

\* The truth value of rev in "if rev:".
Truthy(rev) == rev # None /\ rev[1] # <<>>

\* A faulty variant of try_revs: "main" is tried before "master".
try_revs_main_first(sha, tag, branch) == <<Some(sha), tag, branch, Some(Main), Some(Master)>>

try_revs(sha, tag, branch) == <<Some(sha), tag, branch, Some(Master), Some(Main)>>

ProbeEvent(url, r) == <<"url_exists", url, r.out, r.heads>>

\* The for loop of get_blob_url from candidate i on: [out, m].
RECURSIVE ProbeFrom(_, _, _, _, _, _, _)
ProbeFrom(repo_url_of, revs, i, url, previous_url, second_attempt, m) ==
    IF i > Len(revs)
    THEN [out |-> Ret(url), m |-> print_once(m, MsgNoRev, None)]
    ELSE IF revs[i] = None
    THEN ProbeFrom(repo_url_of, revs, i + 1, url, previous_url, second_attempt, m)
    ELSE LET try_url == BlobUrl(repo_url_of, revs[i][1])
             m1 == IF previous_url # None /\ second_attempt
                   THEN print_once(m, MsgNotExist(previous_url[1]), Some(Magenta))
                   ELSE m
             m2 == IF previous_url # None
                   THEN print_once(m1, MsgFallingBack(try_url), Some(Magenta))
                   ELSE m1
             second == IF previous_url # None THEN FALSE ELSE second_attempt
             r == _url_exists(try_url, m2.urlCache, {})
             m3 == [m2 EXCEPT !.urlCache = r.cache,
                              !.log = Append(@, ProbeEvent(try_url, r))]
         IN  IF IsRaise(r.out) THEN [out |-> r.out, m |-> m3]
             ELSE IF r.out[2]
             THEN [out |-> Ret(try_url),
                   m |-> IF previous_url # None
                         THEN print_once(m3, MsgDisable, Some(Magenta)) ELSE m3]
             ELSE ProbeFrom(repo_url_of, revs, i + 1, try_url, Some(try_url), second, m3)

\* The body of get_blob_url(github_repo, rev=rev): [out, sha, m].
blob_url_body(github_repo, rev) ==
    LET m0 == [urlCache |-> urlCache, printCache |-> printCache,
               stdout |-> stdout, log |-> <<>>]
        sha == _get_commit_sha(shaCache)
        tag == _get_latest_tag
        branch == _get_branch
        shaLog == IF sha.ran THEN <<GitEvent("commit_sha", sha.out)>> ELSE <<>>
        tagLog == shaLog \o <<GitEvent("latest_tag", tag)>>
        branchLog == tagLog \o <<GitEvent("branch", branch)>>
    IN  IF Truthy(rev)
        THEN [out |-> Ret(BlobUrl(github_repo, rev[1])), sha |-> shaCache, m |-> m0]
        ELSE IF IsRaise(sha.out)
        THEN [out |-> sha.out, sha |-> sha.cache, m |-> [m0 EXCEPT !.log = shaLog]]
        ELSE IF IsRaise(tag)
        THEN [out |-> tag, sha |-> sha.cache, m |-> [m0 EXCEPT !.log = tagLog]]
        ELSE IF IsRaise(branch)
        THEN [out |-> branch, sha |-> sha.cache, m |-> [m0 EXCEPT !.log = branchLog]]
        ELSE LET loop == ProbeFrom(github_repo, try_revs(sha.out[2], tag[2], branch[2]), 1,
                                   BlobUrl(github_repo, Main), None, TRUE,
                                   [m0 EXCEPT !.log = branchLog])
             IN  [out |-> loop.out, sha |-> sha.cache, m |-> loop.m]

\* Did the call get as far as the probing loop?
ReachesProbing(rev) ==
    /\ ~Truthy(rev)
    /\ IsRet(_get_commit_sha(shaCache).out)
    /\ IsRet(_get_latest_tag)
    /\ IsRet(_get_branch)

(***************************************************************************)
(* Actions of the link resolution.                                         *)
(***************************************************************************)
\* get_blob_url(github_repo, rev=rev) under functools.cache.
GetBlobUrl(github_repo, rev) ==
    LET key == <<github_repo, rev>>
        body == blob_url_body(github_repo, rev)
    IN  IF key \in DOMAIN blobCache
        THEN /\ res' = Call("get_blob_url", key, Ret(blobCache[key]), <<>>)
             /\ UNCHANGED <<docVars, pinVars, linkVars>>
        ELSE /\ res' = Call("get_blob_url", key, body.out, body.m.log)
             /\ blobCache' = IF IsRet(body.out) THEN Put(blobCache, key, body.out[2])
                             ELSE blobCache
             /\ shaCache' = body.sha
             /\ urlCache' = body.m.urlCache
             /\ printCache' = body.m.printCache
             /\ stdout' = body.m.stdout
             /\ chainRuns' = IF ReachesProbing(rev)
                             THEN Put(chainRuns, key,
                                      IF key \in DOMAIN chainRuns THEN 2 ELSE 1)
                             ELSE chainRuns
             /\ UNCHANGED <<docVars, pinVars, git, net>>

GetGitRevision(prefer_branch) ==
    LET r == get_git_revision(prefer_branch)
    IN  /\ res' = Call("get_git_revision", prefer_branch, r.out, r.log)
        /\ shaCache' = r.cache
        /\ UNCHANGED <<docVars, pinVars, git, net, urlCache, blobCache, printCache, stdout, chainRuns>>

\* print_once(message) and print_once(message, color=color), called by a
\* conf.py or another extension.
PrintOnce(message, color) ==
    LET m == print_once([urlCache |-> urlCache, printCache |-> printCache,
                         stdout |-> stdout, log |-> <<>>], message, color)
    IN  /\ res' = Call("print_once", <<message, color>>, Ret(None), <<>>)
        /\ printCache' = m.printCache
        /\ stdout' = m.stdout
        /\ UNCHANGED <<docVars, pinVars, git, net, shaCache, urlCache, blobCache, chainRuns>>

(***************************************************************************)
(* __init__.py: API page generation (_generate_apidoc).                    *)
(***************************************************************************)
\* Package directories relative to app.srcdir, and the files in them.
PkgA == "../src/pkg_a"
PkgB == "../src/pkg_b"
Packages == {PkgA, PkgB}
VersionFile == "version.py"
UtilsFile == "utils.py"

\* Path.exists()
DirExists(package_path) == srcdir[package_path] # None
FileExists(package_path, file) == file \in srcdir[package_path][1]

\* The for loop over excludes from index i on: the path of every excluded
\* file, or FileNotFoundError at the first one that does not exist.
RECURSIVE ExcludedPaths(_, _, _)
ExcludedPaths(package_path, excludes, i) ==
    IF i > Len(excludes) THEN Ret(<<>>)
    ELSE IF ~FileExists(package_path, excludes[i]) THEN Raise("FileNotFoundError")
    ELSE LET rest == ExcludedPaths(package_path, excludes, i + 1)
         IN  IF IsRaise(rest) THEN rest
             ELSE Ret(<<<<package_path, excludes[i]>>>> \o rest[2])

\* __run_sphinx_apidoc(package_path, apidoc_dir, excludes, use_compwa_template),
\* where excludes is None or Some(list object): [out, excludes, args].  The
\* list object handed in is the one app.config holds; `excludes` in the result
\* is its content after the call.
__run_sphinx_apidoc(package_path, apidoc_dir_name, excludes, use_compwa_template) ==
    IF ~DirExists(package_path)
    THEN [out |-> Raise("FileNotFoundError"), excludes |-> excludes, args |-> None]
    ELSE LET local == IF excludes = None THEN <<>> ELSE excludes[1]
             appended == IF FileExists(package_path, VersionFile)
                         THEN Append(local, VersionFile) ELSE local
             after == IF excludes = None THEN None ELSE Some(appended)
             paths == ExcludedPaths(package_path, appended, 1)
             args == <<package_path>> \o paths[2]
                     \o <<"-o", apidoc_dir_name, "--force", "--no-toc", "--separate">>
                     \o (IF use_compwa_template THEN <<"--templatedir", "templates">>
                         ELSE <<>>)
         IN  IF IsRaise(paths) THEN [out |-> paths, excludes |-> after, args |-> None]
             ELSE [out |-> Ret(None), excludes |-> after, args |-> Some(args)]

\* The for loop of _generate_apidoc from package i on: [out, excludes, dir, log],
\* the log holding <<"apidoc", rel_dir, excludes handed over, out, args>> for
\* every call of __run_sphinx_apidoc.
RECURSIVE ApidocFrom(_, _, _, _, _)
ApidocFrom(package_dirs, i, excludes, dir, log) ==
    IF i > Len(package_dirs)
    THEN [out |-> Ret(None), excludes |-> excludes, dir |-> dir, log |-> log]
    ELSE LET r == __run_sphinx_apidoc(package_dirs[i], config.generate_apidoc_directory,
                                      excludes,
                                      config.generate_apidoc_use_compwa_template)
             log1 == Append(log, <<"apidoc", package_dirs[i], excludes, r.out, r.args>>)
         IN  IF IsRaise(r.out)
             THEN [out |-> r.out, excludes |-> r.excludes, dir |-> dir, log |-> log1]
             ELSE ApidocFrom(package_dirs, i + 1, r.excludes,
                             dir \cup {package_dirs[i]}, log1)

\* _generate_apidoc(app, _), a handler of "config-inited".
GenerateApidoc ==
    LET package_path == config.generate_apidoc_package_path
        package_dirs == IF package_path[1] = "str" THEN <<package_path[2]>>
                        ELSE package_path[2]
        loop == ApidocFrom(package_dirs, 1, config.generate_apidoc_excludes, {}, <<>>)
    IN  /\ phase = "config-inited"
        /\ IF package_path = None
           THEN /\ res' = Call("_generate_apidoc", None, Ret(None), <<>>)
                /\ phase' = "apidoc-done"
                /\ UNCHANGED <<config, apidoc_dir>>
           ELSE /\ res' = Call("_generate_apidoc", package_path, loop.out, loop.log)
                /\ phase' = IF IsRaise(loop.out) THEN "failed" ELSE "apidoc-done"
                /\ config' = [config EXCEPT !.generate_apidoc_excludes = loop.excludes]
                /\ apidoc_dir' = loop.dir
        /\ UNCHANGED <<pinVars, linkVars, srcdir, conf, type_to_xref>>

(***************************************************************************)
(* __init__.py: the patched type_to_xref (_replace_type_to_xref).          *)
(* A reference target is the sequence of its dotted parts, after an        *)
(* optional "~" or "." part: "~pkg.A" is <<"~", "pkg", "A">>.              *)
(***************************************************************************)
NameA == <<"A">>
NamePkgA == <<"pkg", "A">>
Targets ==
    {NameA, NamePkgA, <<"~", "pkg", "A">>, <<".", "A">>, <<"typing", "Any">>, <<"None">>}

Last(s) == <<s[Len(s)]>>

\* sphinx.domains.python: parse_reftarget(reftarget, suppress_prefix)
parse_reftarget(reftarget, suppress_prefix) ==
    LET stripped == IF reftarget[1] \in {".", "~"} THEN Tail(reftarget) ELSE reftarget
        typing == Len(stripped) > 1 /\ stripped[1] = "typing"
        title == IF reftarget[1] = "." THEN stripped
                 ELSE IF reftarget[1] = "~" THEN Last(stripped)
                 ELSE IF suppress_prefix THEN Last(stripped)
                 ELSE IF typing THEN Tail(stripped)
                 ELSE stripped
    IN  [reftype |-> IF stripped = <<"None">> \/ typing THEN "obj" ELSE "class",
         target |-> stripped,
         title |-> title,
         refspecific |-> reftarget[1] = "."]

\* The isinstance checks of _get_target_substitutions.
SubstitutionsWellTyped(target_substitutions) ==
    /\ TypeOf(target_substitutions) = "dict"
    /\ \A i \in 1..Len(Payload(target_substitutions)) :
          LET k == Payload(target_substitutions)[i][1]
              v == Payload(target_substitutions)[i][2]
          IN  /\ TypeOf(k) = "str"
              /\ TypeOf(v) \in {"str", "tuple"}
              /\ TypeOf(v) = "tuple" => Len(Payload(v)) = 2

\* The isinstance checks of _get_target_types.
TypesWellTyped(target_types) ==
    /\ TypeOf(target_types) = "dict"
    /\ \A i \in 1..Len(Payload(target_types)) :
          /\ TypeOf(Payload(target_types)[i][1]) = "str"
          /\ TypeOf(Payload(target_types)[i][2]) = "str"

\* d[k] = v on the items of a dict: a present key keeps its place.
SetItem(items, k, v) ==
    IF \E i \in 1..Len(items) : items[i][1] = k
    THEN [i \in 1..Len(items) |-> IF items[i][1] = k THEN <<k, v>> ELSE items[i]]
    ELSE Append(items, <<k, v>>)

\* ref_types.update({v[1]: v[0] for v in target_substitutions.values()
\*                   if isinstance(v, tuple)}), from item i on
RECURSIVE UpdateRefTypes(_, _, _)
UpdateRefTypes(ref_types, substitutions, i) ==
    IF i > Len(substitutions) THEN ref_types
    ELSE LET v == substitutions[i][2]
         IN  IF TypeOf(v) = "tuple"
             THEN UpdateRefTypes(SetItem(ref_types, Payload(v)[2], Payload(v)[1]),
                                 substitutions, i + 1)
             ELSE UpdateRefTypes(ref_types, substitutions, i + 1)

\* {k: v if isinstance(v, str) else v[1] for k, v in target_substitutions.items()}
RefTargets(substitutions) ==
    [i \in 1..Len(substitutions) |->
        <<substitutions[i][1],
          IF TypeOf(substitutions[i][2]) = "str" THEN substitutions[i][2]
          ELSE Payload(substitutions[i][2])[2]>>]

\* dict.get(key, default) on the items of a dict with str keys and values
ItemsGet(items, key, default) ==
    IF \E i \in 1..Len(items) : items[i][1] = PyStr(key)
    THEN Payload(items[CHOOSE i \in 1..Len(items) : items[i][1] = PyStr(key)][2])
    ELSE default

\* The build environment handed to type_to_xref.
Envs ==
    {None} \cup {Some([python_use_unqualified_type_names |-> unqualified,
                        module |-> "mod", class |-> None]) : unqualified \in BOOLEAN}

\* _create_nodes(env, title)
_create_nodes(env, title) ==
    IF env.python_use_unqualified_type_names
    THEN <<<<"pending_xref_condition", Last(title), "resolved">>,
           <<"pending_xref_condition", title, "*">>>>
    ELSE <<<<"Text", Last(title)>>>>

\* _new_type_to_xref(target, env, suppress_prefix) with the closure's
\* ref_targets and ref_types
_new_type_to_xref(closure, target, env, suppress_prefix) ==
    LET parsed == parse_reftarget(target, suppress_prefix)
        target1 == ItemsGet(closure.ref_targets, parsed.target, parsed.target)
        reftype == ItemsGet(closure.ref_types, target1, parsed.reftype)
    IN  IF env = None THEN Raise("TypeError")
        ELSE Ret([children |-> _create_nodes(env[1], parsed.title),
                  refdomain |-> "py",
                  reftype |-> reftype,
                  reftarget |-> target1,
                  refspecific |-> parsed.refspecific,
                  module |-> env[1].module,
                  class |-> env[1].class])

\* _replace_type_to_xref(app, _), a handler of "config-inited": the dict of
\* api_target_types is updated in place and Sphinx's type_to_xref is replaced.
ReplaceTypeToXref ==
    LET target_substitutions == config.api_target_substitutions
        target_types == config.api_target_types
        ref_types == UpdateRefTypes(Payload(target_types), Payload(target_substitutions), 1)
    IN  /\ phase = "apidoc-done"
        /\ IF ~SubstitutionsWellTyped(target_substitutions) \/ ~TypesWellTyped(target_types)
           THEN /\ res' = Call("_replace_type_to_xref", None, Raise("TypeError"), <<>>)
                /\ phase' = "failed"
                /\ UNCHANGED <<config, type_to_xref>>
           ELSE /\ res' = Call("_replace_type_to_xref", None, Ret(None), <<>>)
                /\ phase' = "patched"
                /\ config' = [config EXCEPT !.api_target_types = PyDict(ref_types)]
                /\ type_to_xref' =
                       Some([ref_targets |-> RefTargets(Payload(target_substitutions)),
                             ref_types |-> ref_types])
        /\ UNCHANGED <<pinVars, linkVars, srcdir, conf, apidoc_dir>>

\* A call of the patched type_to_xref while Sphinx reads the documents.
TypeToXref(target, env, suppress_prefix) ==
    /\ phase = "patched"
    /\ res' = Call("type_to_xref", <<target, env, suppress_prefix>>,
                   _new_type_to_xref(type_to_xref[1], target, env, suppress_prefix), <<>>)
    /\ UNCHANGED <<pinVars, linkVars, docVars>>

(***************************************************************************)
(* Specifications.                                                         *)
(***************************************************************************)
NoCall == Call("none", None, Ret(None), <<>>)

\* The options no conf.py sets (setup, add_config_value defaults).
DefaultConf ==
    [generate_apidoc_package_path |-> None,
     generate_apidoc_excludes |-> None,
     generate_apidoc_directory |-> "api",
     generate_apidoc_use_compwa_template |-> TRUE,
     api_target_substitutions |-> PyDict(<<>>),
     api_target_types |-> PyDict(<<>>)]

NoPackages == [p \in Packages |-> None]

InitDocs ==
    /\ srcdir = NoPackages
    /\ conf = DefaultConf
    /\ config = conf
    /\ apidoc_dir = {}
    /\ type_to_xref = None
    /\ phase = "config-inited"

InitPin ==
    /\ constraints = None
    /\ installed = NothingInstalled
    /\ __VERSION_REMAPPING = <<>>

InitLink ==
    /\ git = NoRepository
    /\ net = AllNotFound
    /\ shaCache = None
    /\ urlCache = <<>>
    /\ blobCache = <<>>
    /\ printCache = {}
    /\ stdout = <<>>
    /\ chainRuns = <<>>

\* The link resolution of one documentation build, in every environment.
Init ==
    /\ InitPin
    /\ InitDocs
    /\ \E env \in Environments : git = env[1] /\ net = env[2]
    /\ shaCache = None
    /\ urlCache = <<>>
    /\ blobCache = <<>>
    /\ printCache = {}
    /\ stdout = <<>>
    /\ chainRuns = <<>>
    /\ res = NoCall

Revs == {None, Some(<<>>), Some(TagV1)}

Next ==
    \/ \E rev \in Revs : GetBlobUrl(Repo, rev)
    \/ \E prefer_branch \in BOOLEAN : GetGitRevision(prefer_branch)

Spec == Init /\ [][Next]_vars

\* The version pin lookup of one conf.py, for every manifest and every set of
\* installed packages.
InitPins ==
    /\ constraints \in Manifests
    /\ installed \in InstalledConfigs
    /\ __VERSION_REMAPPING = <<>>
    /\ InitLink
    /\ InitDocs
    /\ res = NoCall

NextPins ==
    \/ \E package_name \in QueryNames : Pin(package_name)
    \/ \E package_name \in QueryNames : PinMinor(package_name)
    \/ \E version_remapping \in RemapTables : SetRemapping(version_remapping)

SpecPins == InitPins /\ [][NextPins]_vars

\* The diagnostics of one documentation build: messages printed by
\* get_blob_url and by direct calls of print_once, in a checkout on branch
\* "dev" whose candidate URLs are all missing or all missing but "main".
Messages == {MsgNoRev, <<"This is an important message!", None>>}
Colors == {None, Some(Red), Some(Magenta)}
PrintEnvironments ==
    {Checkout(TRUE, TRUE, None, Some(BranchDev))}
    \X {AllNotFound, [AllNotFound EXCEPT ![MainUrl] = Ok]}

InitPrint ==
    /\ InitPin
    /\ InitDocs
    /\ \E env \in PrintEnvironments : git = env[1] /\ net = env[2]
    /\ shaCache = None
    /\ urlCache = <<>>
    /\ blobCache = <<>>
    /\ printCache = {}
    /\ stdout = <<>>
    /\ chainRuns = <<>>
    /\ res = NoCall

NextPrint ==
    \/ \E message \in Messages, color \in Colors : PrintOnce(message, color)
    \/ GetBlobUrl(Repo, None)

SpecPrint == InitPrint /\ [][NextPrint]_vars

\* The "config-inited" handlers of one documentation build and the calls of
\* the patched type_to_xref that follow, for every conf.py and source
\* directory below; api_github_repo is not set.
SrcDirs == [Packages -> {None} \cup {Some(files) : files \in SUBSET {VersionFile, UtilsFile}}]
ApidocConfs ==
    {[DefaultConf EXCEPT !.generate_apidoc_package_path = package_path,
                         !.generate_apidoc_excludes = excludes,
                         !.generate_apidoc_use_compwa_template = template] :
        package_path \in {None, <<"str", PkgA>>,
                          <<"list", <<PkgA, PkgB>>>>, <<"list", <<PkgB, PkgA>>>>},
        excludes \in {None, Some(<<>>), Some(<<UtilsFile>>)},
        template \in BOOLEAN}

\* api_target_substitutions: none, "A" to "pkg.A" as a str and as a tuple with
\* the type "obj" or "func", a tuple of length 3, and a list.
Substitutions ==
    {PyDict(<<>>),
     PyDict(<<<<PyStr(NameA), PyStr(NamePkgA)>>>>),
     PyDict(<<<<PyStr(NameA), <<"tuple", <<PyStr("obj"), PyStr(NamePkgA)>>>>>>>>),
     PyDict(<<<<PyStr(NameA), <<"tuple", <<PyStr("func"), PyStr(NamePkgA)>>>>>>>>),
     PyDict(<<<<PyStr(NameA),
                <<"tuple", <<PyStr("obj"), PyStr(NamePkgA), PyStr("x")>>>>>>>>),
     PyList}

\* api_target_types: none, "obj" for "A", "obj" for "pkg.A", and an int value.
TargetTypes ==
    {PyDict(<<>>),
     PyDict(<<<<PyStr(NameA), PyStr("obj")>>>>),
     PyDict(<<<<PyStr(NamePkgA), PyStr("obj")>>>>),
     PyDict(<<<<PyStr(NameA), PyInt>>>>)}

XrefConfs ==
    {[DefaultConf EXCEPT !.api_target_substitutions = target_substitutions,
                         !.api_target_types = target_types] :
        target_substitutions \in Substitutions, target_types \in TargetTypes}

InitDoc ==
    /\ InitPin
    /\ InitLink
    /\ \/ srcdir \in SrcDirs /\ conf \in ApidocConfs
       \/ srcdir = NoPackages /\ conf \in XrefConfs
    /\ config = conf
    /\ apidoc_dir \in {{}, {PkgB}}
    /\ type_to_xref = None
    /\ phase = "config-inited"
    /\ res = NoCall

NextDoc ==
    \/ GenerateApidoc
    \/ ReplaceTypeToXref
    \/ \E target \in Targets, env \in Envs, suppress_prefix \in BOOLEAN :
          TypeToXref(target, env, suppress_prefix)

SpecDoc == InitDoc /\ [][NextDoc]_vars


(***************************************************************************)
(* Claims about the link resolution (specification Spec).                  *)
(***************************************************************************)
IsBlobCall == res.op = "get_blob_url"
CallRepo == res.arg[1]
CallRev == res.arg[2]
\* The call names a revision: a non-empty string (the default of the
\* api_linkcode_rev option is the empty string).
ExplicitRev == CallRev # None /\ CallRev[1] # <<>>

\* The probes of the last call, in order: <<"url_exists", url, out, heads>>.
Probes == SelectSeq(res.log, LAMBDA e : e[1] = "url_exists")
GitQueries == SelectSeq(res.log, LAMBDA e : e[1] = "git")

\* C1: with an explicit (non-empty) revision, get_blob_url returns exactly
\* https://github.com/<repo>/blob/<revision>, and the call runs no Git query and
\* no URL existence check.
C1_ExplicitRevisionUsedDirectly ==
    (IsBlobCall /\ ExplicitRev) =>
        /\ res.out = Ret(<<"https://github.com", CallRepo, "blob", CallRev[1]>>)
        /\ res.log = <<>>

\* An explicit revision is returned although its URL does not exist and no
\* git executable is there to ask.
C1_Witness ==
    /\ IsBlobCall
    /\ CallRev = Some(TagV1)
    /\ res.out = Ret(BlobUrl(Repo, TagV1))
    /\ net[BlobUrl(Repo, TagV1)] = NotFound
    /\ ~git.tool

\* The candidate URLs the claim lists, in its order, from the checkout:
\* commit SHA, exact tag, branch, "master", "main", without the absent ones.
C2_Candidates ==
    LET refs == <<Some(SubSeq(git.head, 1, 7)), git.tag, git.branch,
                  Some(Master), Some(Main)>>
        present == SelectSeq(refs, LAMBDA r : r # None)
    IN  [i \in 1..Len(present) |-> BlobUrl(CallRepo, present[i][1])]

\* C2: without an explicit revision, every call that runs the chain probes the
\* candidates in the order commit SHA, tag, branch, "master", "main", skipping
\* absent ones, and stops at the first confirmed one; a call that returns, returns
\* the confirmed candidate's URL, or the "main" URL when every candidate was
\* probed and none confirmed.
C2_ProbingOrder ==
    (IsBlobCall /\ ~ExplicitRev /\ Probes # <<>>) =>
        LET k == Len(Probes)
        IN  /\ k <= Len(C2_Candidates)
            /\ \A i \in 1..k : Probes[i][2] = C2_Candidates[i]
            /\ \A i \in 1..(k - 1) : Probes[i][3] = Ret(FALSE)
            /\ IsRet(res.out) =>
                  IF Probes[k][3] = Ret(TRUE) THEN res.out = Ret(C2_Candidates[k])
                  ELSE /\ k = Len(C2_Candidates)
                       /\ res.out = Ret(BlobUrl(CallRepo, Main))

\* The scenario of the specification: no tag, a branch whose URL does not
\* resolve, "master" resolves.
C2_Witness ==
    /\ IsBlobCall
    /\ git.tag = None
    /\ git.branch = Some(BranchDev)
    /\ Len(Probes) = 3
    /\ Probes[2] = <<"url_exists", BlobUrl(Repo, BranchDev), Ret(FALSE),
                     <<BlobUrl(Repo, BranchDev)>>>>
    /\ res.out = Ret(BlobUrl(Repo, Master))

\* C3: over any sequence of calls, the probing chain runs at most once per
\* (repository, explicit revision) pair.
C3_ChainRunsAtMostOnce ==
    \A key \in DOMAIN chainRuns : chainRuns[key] <= 1

\* C9: of the Git queries, only the commit-SHA query raises; the tag query and
\* the branch query yield "no value" instead.
C9_OnlyCommitShaRaises ==
    \A i \in 1..Len(GitQueries) :
        IsRaise(GitQueries[i][3]) => GitQueries[i][2] = "commit_sha"

\* C10: every probe of get_blob_url yields an answer (true or false), and no
\* exception from probing reaches the caller.
C10_NoProbeExceptionEscapes ==
    IsBlobCall =>
        /\ \A i \in 1..Len(Probes) : IsRet(Probes[i][3])
        /\ res.out # Raise("RecursionError")

(***************************************************************************)
(* Claims about the version pin lookup (specification SpecPins).           *)
(***************************************************************************)
\* A manifest line read as name==version: Some(<<name, version>>), or None.
ManifestEntry(line) ==
    LET segments == SplitEq(Strip(BeforeHash(line)))
    IN  IF Len(segments) = 2 THEN Some(<<Strip(segments[1]), Strip(segments[2])>>)
        ELSE None

\* The versions the manifest lists for a package name, case-insensitively.
ManifestVersions(package_name) ==
    IF constraints = None THEN {}
    ELSE {ManifestEntry(constraints[1][i])[1][2] :
            i \in {j \in 1..Len(constraints[1]) :
                      /\ ManifestEntry(constraints[1][j]) # None
                      /\ Lower(ManifestEntry(constraints[1][j])[1][1]) = Lower(package_name)}}

\* C4: if the manifest has a line name==version for the requested name
\* (case-insensitively), pin returns that version, remapped if the remapping
\* table intercepts it, whatever other packages the manifest lists.
C4_PinReturnsManifestVersion ==
    (res.op = "pin" /\ ManifestVersions(res.arg) # {}) =>
        \E v \in ManifestVersions(res.arg) :
            res.out = Ret(_remap_version(Lower(res.arg), v))

\* The remapping table of the package of the last call.
CallRemapping ==
    IF Lower(res.arg) \in DOMAIN __VERSION_REMAPPING
    THEN __VERSION_REMAPPING[Lower(res.arg)] ELSE <<>>

\* C5 as stated: the version is replaced by the target of the first entry whose
\* source equals it, and is unchanged when it equals no source.
C5_RemapByExactMatch ==
    (res.op = "pin" /\ lookup_version(Lower(res.arg)) # None) =>
        LET v == lookup_version(Lower(res.arg))[1]
            t == CallRemapping
            hits == {i \in 1..Len(t) : t[i][1] = v}
        IN  res.out = Ret(IF hits = {} THEN v
                          ELSE t[CHOOSE i \in hits : \A j \in hits : i <= j][2])

\* C5 amended: the version is replaced by the target of the first entry, in
\* table order, whose source matches it as a regular expression anchored at the
\* start of the version (re.match); if no source matches so, by the target of
\* the entry whose source equals it; otherwise it is unchanged.
C5_RemapByPatternMatch ==
    (res.op = "pin" /\ lookup_version(Lower(res.arg)) # None) =>
        LET v == lookup_version(Lower(res.arg))[1]
            t == CallRemapping
            hits == {i \in 1..Len(t) : ReMatch(t[i][1], v)}
            same == {i \in 1..Len(t) : t[i][1] = v}
        IN  res.out = Ret(IF hits # {} THEN t[CHOOSE i \in hits : \A j \in hits : i <= j][2]
                          ELSE IF same # {} THEN t[CHOOSE i \in same : TRUE][2]
                          ELSE v)

\* The source "1.2" remaps the version "1.2.3", which it only begins.
C5_Witness ==
    /\ res.op = "pin"
    /\ lookup_version(Lower(res.arg)) = Some(V123)
    /\ CallRemapping = <<<<V12, V99>>>>
    /\ res.out = Ret(V99)

\* C6: without a manifest entry for the package, pin returns the installed
\* version, and "stable", not remapped, when the package is not installed.
C6_FallbackToInstalledOrStable ==
    (res.op = "pin" /\ ManifestVersions(res.arg) = {}) =>
        IF version(Lower(res.arg)) = None THEN res.out = Ret(Stable)
        ELSE res.out = Ret(_remap_version(Lower(res.arg), version(Lower(res.arg))[1]))

\* Does s begin with digits, a dot and digits, the second run ending at j?
BeginsMajorMinor(s, j) ==
    \E i \in 1..Len(s) :
        /\ j \in (i + 2)..Len(s)
        /\ \A k \in 1..i : IsDigit(s[k])
        /\ s[i + 1] = "."
        /\ \A k \in (i + 2)..j : IsDigit(s[k])
        /\ j = Len(s) \/ ~IsDigit(s[j + 1])

\* C7: pin_minor returns the MAJOR.MINOR prefix of what pin resolves, "stable"
\* unchanged, and raises ValueError for every other version that does not begin
\* with digits, a dot and digits.
C7_PinMinor ==
    res.op = "pin_minor" =>
        LET p == pin(res.arg)
        IN  IF p = Stable THEN res.out = Ret(Stable)
            ELSE IF \E j \in 1..Len(p) : BeginsMajorMinor(p, j)
            THEN \E j \in 1..Len(p) :
                    BeginsMajorMinor(p, j) /\ res.out = Ret(SubSeq(p, 1, j))
            ELSE res.out = Raise("ValueError")

\* "1.2.3" is cut to "1.2".
C7_Witness ==
    /\ res.op = "pin_minor"
    /\ pin(res.arg) = V123
    /\ res.out = Ret(V12)

\* C8: a remapping entry, once registered, is never lost: after every call each
\* source registered for a package is still registered for it.
C8_RegisteredEntriesPersist ==
    [][\A package \in DOMAIN __VERSION_REMAPPING :
          /\ package \in DOMAIN __VERSION_REMAPPING'
          /\ \A i \in 1..Len(__VERSION_REMAPPING[package]) :
                \E j \in 1..Len(__VERSION_REMAPPING'[package]) :
                    __VERSION_REMAPPING'[package][j][1] = __VERSION_REMAPPING[package][i][1]]_vars


(***************************************************************************)
(* Claims about redirects (specification Spec).                            *)
(***************************************************************************)
\* The HEAD requests of one probe, and its answer.
ProbeUrl(e) == e[2]
ProbeOut(e) == e[3]
ProbeHeads(e) == e[4]

\* C11 as stated: one URL existence check issues at most two HEAD requests,
\* one to the URL itself and, only if that response carries a redirect
\* location, one to the redirect target.
C11_AtMostOneRedirect ==
    \A i \in 1..Len(Probes) :
        LET heads == ProbeHeads(Probes[i])
        IN  /\ Len(heads) <= 2
            /\ Len(heads) = 2 => net[heads[1]] = Redirect(heads[2])

\* The URL at the end of the redirect chain that starts at url, after at most
\* `hops` redirects.
RECURSIVE ChainEnd(_, _)
ChainEnd(url, hops) ==
    IF hops = 0 \/ net[url] = RequestException \/ net[url][3] = None THEN url
    ELSE ChainEnd(net[url][3][1], hops - 1)

\* Does the hosting service answer a HEAD request for url with a status below
\* 400 and no redirect location?
Exists(url) ==
    /\ net[url] # RequestException
    /\ net[url][3] = None
    /\ net[url][2] < 400

\* C11 as amended: one URL existence check follows the whole redirect chain.
\* The first HEAD request goes to the URL, each later one to the redirect
\* location of the response before it, and a check that returns answers for
\* the URL at the end of the chain, however many redirects lead there.
C11_FollowsRedirectChain ==
    \A i \in 1..Len(Probes) :
        LET e == Probes[i]
            heads == ProbeHeads(e)
        IN  /\ heads # <<>> => heads[1] = ProbeUrl(e)
            /\ \A j \in 2..Len(heads) : net[heads[j - 1]] = Redirect(heads[j])
            /\ IsRet(ProbeOut(e)) =>
                    ProbeOut(e)[2] = Exists(ChainEnd(ProbeUrl(e), Cardinality(Urls)))

\* A check follows two redirects, sends three HEAD requests and finds the
\* last URL missing.
C11_Witness ==
    /\ IsBlobCall
    /\ Probes # <<>>
    /\ ProbeHeads(Probes[1]) = <<ShaUrl, OtherUrl, MainUrl>>
    /\ ProbeOut(Probes[1]) = Ret(FALSE)


(***************************************************************************)
(* Claims about the diagnostics (specification SpecPrint).                 *)
(***************************************************************************)
\* The text of a printed line.
Text(line) == line[1]

\* C12: over any sequence of print_once and get_blob_url calls, each distinct
\* message text is printed at most once, whatever color argument accompanies
\* it.
C12_EachTextPrintedOnce ==
    \A i, j \in 1..Len(stdout) : Text(stdout[i]) = Text(stdout[j]) => i = j


(***************************************************************************)
(* Claims about get_git_revision (specification Spec).                     *)
(***************************************************************************)
IsRevisionCall == res.op = "get_git_revision"
\* The directory is a Git repository and the git executable is there.
InRepository == git.tool /\ git.repo

\* C13: in a repository, get_git_revision returns the exact-match tag of the
\* current commit whenever one exists, regardless of prefer_branch; without a
\* tag it returns the branch name if prefer_branch is true and HEAD is not
\* detached, and the first 7 characters of the commit hash in every other
\* case.
C13_GitRevision ==
    (IsRevisionCall /\ InRepository) =>
        res.out = Ret(IF git.tag # None THEN git.tag[1]
                      ELSE IF res.arg /\ git.branch # None THEN git.branch[1]
                      ELSE SubSeq(git.head, 1, 7))

\* Without a tag and on a detached HEAD, the branch is asked for and the
\* commit SHA is returned.
C13_Witness ==
    /\ IsRevisionCall
    /\ InRepository
    /\ res.arg
    /\ git.tag = None
    /\ git.branch = None
    /\ res.out = Ret(<<"1", "a", "2", "b", "3", "c", "4">>)


(***************************************************************************)
(* Claims about the documentation build (specification SpecDoc).           *)
(***************************************************************************)
IsXrefCall == res.op = "type_to_xref"
\* The type hint handed to type_to_xref.
CallHint == res.arg[1]
\* The keys of api_target_types as conf.py sets them, and the reference type
\* conf.py gives a key.
ConfiguredHints ==
    {Payload(Payload(conf.api_target_types)[i][1]) :
        i \in 1..Len(Payload(conf.api_target_types))}
ConfiguredType(hint) ==
    LET items == Payload(conf.api_target_types)
    IN  Payload(items[CHOOSE i \in 1..Len(items) : Payload(items[i][1]) = hint][2])

\* C14: for every type hint that is a key of api_target_types, the
\* cross-reference the patched type_to_xref produces carries the reference
\* type configured for that hint, also when the hint has an entry in
\* api_target_substitutions.
C14_ConfiguredReferenceType ==
    (IsXrefCall /\ IsRet(res.out) /\ CallHint \in ConfiguredHints) =>
        res.out[2].reftype = ConfiguredType(CallHint)

IsApidocCall == res.op = "_generate_apidoc"
\* The passes of the loop over the packages: <<"apidoc", rel_dir, excludes, out, args>>.
PassPackage(e) == e[2]
PassExcludes(e) == e[3]
PassOut(e) == e[4]
PassArgs(e) == e[5]

\* The files to exclude for one package: the configured excludes, plus
\* version.py if the package contains it.
ConfiguredExcludes ==
    IF conf.generate_apidoc_excludes = None THEN <<>> ELSE conf.generate_apidoc_excludes[1]
ExpectedExcludes(package) ==
    ConfiguredExcludes
    \o (IF srcdir[package] # None /\ VersionFile \in srcdir[package][1]
        THEN <<VersionFile>> ELSE <<>>)
\* The excluded paths among the arguments of sphinx_apidoc.
ExcludedArgs(args) == SelectSeq(args, LAMBDA a : a \in Packages \X {VersionFile, UtilsFile})

\* generate_apidoc_package_path lists several packages.
SeveralPackages ==
    /\ conf.generate_apidoc_package_path # None
    /\ conf.generate_apidoc_package_path[1] = "list"
    /\ Len(conf.generate_apidoc_package_path[2]) > 1

\* C17: with several packages, each package is processed with exactly the
\* configured excludes plus version.py only if the package itself contains
\* version.py: FileNotFoundError is raised for a package only if the package
\* or one of those files is missing, and the configured exclude list is the
\* same after the handler as before.
C17_ExcludesPerPackage ==
    (IsApidocCall /\ SeveralPackages) =>
        /\ config.generate_apidoc_excludes = conf.generate_apidoc_excludes
        /\ \A i \in 1..Len(res.log) :
              LET e == res.log[i]
                  package == PassPackage(e)
                  expected == ExpectedExcludes(package)
                  missing == \/ srcdir[package] = None
                             \/ \E j \in 1..Len(expected) :
                                    expected[j] \notin srcdir[package][1]
              IN  /\ IsRaise(PassOut(e)) <=> missing
                  /\ IsRet(PassOut(e)) =>
                        ExcludedArgs(PassArgs(e)[1]) =
                            [j \in 1..Len(expected) |-> <<package, expected[j]>>]


(***************************************************************************)
(* Claims about redirect cycles (specification Spec).                      *)
(***************************************************************************)
\* C15: a URL existence check terminates for every redirect configuration,
\* cycles included: it answers true or false after at most one HEAD request
\* per URL of the hosting service, and the only errors get_blob_url ends in
\* are those of the Git queries.
C15_RedirectCheckTerminates ==
    IsBlobCall =>
        /\ \A i \in 1..Len(Probes) :
              /\ ProbeOut(Probes[i]) \in {Ret(TRUE), Ret(FALSE)}
              /\ Len(ProbeHeads(Probes[i])) <= Cardinality(Urls)
        /\ IsRaise(res.out) =>
              res.out \in {Raise("CalledProcessError"), Raise("FileNotFoundError")}


(***************************************************************************)
(* Claims about the validation of remapping tables (SpecPins).             *)
(***************************************************************************)
IsRemappingCall(call) == call.op = "set_intersphinx_version_remapping"
\* The tables that are no dict of str to dict of str to str.
MalformedTables ==
    {TableNoDict, TableIntKey, TableStrValue, TableIntTarget, TableIntSource}

\* C16: a call of set_intersphinx_version_remapping with a malformed table
\* signals TypeError and leaves the remapping table as it was, together with
\* everything else a pin lookup reads (the manifest and the installed
\* packages), so every pin lookup gives what it gave before the call.
C16_MalformedTableRejectedWhole ==
    [][(IsRemappingCall(res') /\ res'.arg \in MalformedTables) =>
          /\ res'.out = Raise("TypeError")
          /\ __VERSION_REMAPPING' = __VERSION_REMAPPING
          /\ UNCHANGED <<constraints, installed>>]_vars

\* A table whose second package holds a non-string target is rejected after
\* an earlier table was registered; its first, well-formed package is not
\* registered.
C16_Witness ==
    /\ IsRemappingCall(res)
    /\ res.arg = TableIntTarget
    /\ res.out = Raise("TypeError")
    /\ DOMAIN __VERSION_REMAPPING = {NameNp}
====
